---- MODULE Spec2Model ----
(***************************************************************************)
(* A model of packages/remix-express/server.ts: the Express adapter that   *)
(* turns a host request into a standardized Request, hands it to the Remix *)
(* runtime and writes the runtime's Response back onto the host response.  *)
(*                                                                         *)
(* Three specifications share the module:                                  *)
(*   Spec        the middleware returned by createRequestHandler, for      *)
(*               NumReq requests in flight at once;                        *)
(*   SpecRelay   createRemixRequest and the PassThrough relay of the host  *)
(*               request's body;                                           *)
(*   SpecHeaders createRemixHeaders and the header loop of                 *)
(*               sendRemixResponse.                                        *)
(***************************************************************************)
EXTENDS Integers, Sequences, FiniteSets, TLC

(***************************************************************************)
(* Bounds of the model.                                                    *)
(***************************************************************************)
NumReq == 2

\* SpecRelay: chunks in a host request body, blocks in a chunk, bytes in a block
MaxChunks == 2

MaxChunkBlocks == 2

BlockSize == 8192

\* SpecHeaders: values in a list-valued host header
MaxVals == 2

Requests == 1..NumReq

(***************************************************************************)
(* Values.                                                                 *)
(***************************************************************************)
\* the values a callback can throw or a promise can reject with
Errors == {"e1", "e2"}

\* no error raised
NoError == "none"

\* what `new URL(req.url, origin)` throws on a malformed origin
InvalidUrl == "ERR_INVALID_URL"

\* `undefined` as a load context / absent value
Undefined == "undefined"

\* the values a getLoadContext callback can return
Contexts == {"ctxA"}

VARIABLES
    getLoadContext,  \* the option of createRequestHandler: "function" or Undefined
    pc,              \* per request: where the async middleware stands
    hostReq,         \* per request: the express.Request it was called with
    trace,           \* per request: the orchestration steps taken, in order
    ctxCalls,        \* per request: the calls of getLoadContext (req, res)
    runtimeCalls,    \* per request: the calls of handleRequest (request, loadContext)
    promise,         \* per request: the promise handleRequest returned
    sendCalls,       \* per request: the calls of sendRemixResponse (res, response)
    nextCalls,       \* per request: the values next() was called with
    resOps,          \* per host response: the operations performed on it, in order
    bodyStream,      \* per request: the response body stream piped into res
    \* SpecRelay
    relayReq,        \* the express.Request handed to createRemixRequest
    relayRequest,    \* the NodeRequest built from it: <<>> before, <<request>> after
    srcRest,         \* the chunks req has still to emit
    srcState,        \* req as a piped source: "unpiped", "flowing", "paused", "ended", "errored"
    ptBuf,           \* the chunks buffered in the PassThrough
    ptEnded,         \* end() was called on the PassThrough
    observed,        \* the blocks read so far from the standardized request's body
    observedEnd,     \* the reader of the standardized request's body saw its end
    \* SpecHeaders
    hdrIn,           \* the host header collection
    hdrPc,           \* "start", "translated", "sent"
    hdrStd,          \* the NodeHeaders createRemixHeaders returned
    hdrOut           \* the headers of the host response after the header loop

orchVars == <<getLoadContext, pc, hostReq, trace, ctxCalls, runtimeCalls,
              promise, sendCalls, nextCalls, resOps, bodyStream>>

relayVars == <<relayReq, relayRequest, srcRest, srcState, ptBuf, ptEnded,
               observed, observedEnd>>

hdrVars == <<hdrIn, hdrPc, hdrStd, hdrOut>>

vars == <<orchVars, relayVars, hdrVars>>

----------------------------------------------------------------------------
(***************************************************************************)
(* The standardized multi-value header container (NodeHeaders): an         *)
(* insertion-ordered map from a name to the list of its values.            *)
(***************************************************************************)
HeaderIndex(headers, name) ==
    IF \E i \in 1..Len(headers) : headers[i].name = name
    THEN CHOOSE i \in 1..Len(headers) : headers[i].name = name
    ELSE 0

\* headers.append(key, value)
HeadersAppend(headers, key, value) ==
    LET i == HeaderIndex(headers, key) IN
    IF i = 0
    THEN Append(headers, [name |-> key, values |-> <<value>>])
    ELSE [headers EXCEPT ![i].values = Append(@, value)]

\* headers.set(key, value)
HeadersSet(headers, key, value) ==
    LET i == HeaderIndex(headers, key) IN
    IF i = 0
    THEN Append(headers, [name |-> key, values |-> <<value>>])
    ELSE [headers EXCEPT ![i].values = <<value>>]

\* the values the container holds under a name
HeadersGet(headers, name) ==
    LET i == HeaderIndex(headers, name) IN
    IF i = 0 THEN <<>> ELSE headers[i].values

(***************************************************************************)
(* A host header entry is [name, kind, vals]: kind "array" carries the     *)
(* list vals, kind "string" the one string vals[1], kind "undefined"       *)
(* nothing.                                                                *)
(***************************************************************************)
\* a test for undefined alone
TruthyUnlessUndefined(entry) == entry.kind # "undefined"

\* `if (values)`: undefined and the empty string are falsy, any array is truthy
Truthy(entry) ==
    \/ entry.kind = "array"
    \/ entry.kind = "string" /\ entry.vals[1] # ""

\* a loop that sets, so that each value replaces the one before
RECURSIVE AppendEachSetting(_, _, _)
AppendEachSetting(headers, key, values) ==
    IF values = <<>>
    THEN headers
    ELSE AppendEachSetting(HeadersSet(headers, key, Head(values)), key, Tail(values))

\* for (const value of values) headers.append(key, value)
RECURSIVE AppendEach(_, _, _)
AppendEach(headers, key, values) ==
    IF values = <<>>
    THEN headers
    ELSE AppendEach(HeadersAppend(headers, key, Head(values)), key, Tail(values))

\* the body of the loop over Object.entries(requestHeaders)
TranslateEntry(headers, entry) ==
    IF Truthy(entry)
    THEN IF entry.kind = "array"
         THEN AppendEach(headers, entry.name, entry.vals)
         ELSE HeadersSet(headers, entry.name, entry.vals[1])
    ELSE headers

RECURSIVE TranslateEntries(_, _)
TranslateEntries(headers, entries) ==
    IF entries = <<>>
    THEN headers
    ELSE TranslateEntries(TranslateEntry(headers, Head(entries)), Tail(entries))

createRemixHeaders(requestHeaders) == TranslateEntries(<<>>, requestHeaders)

----------------------------------------------------------------------------
(***************************************************************************)
(* createRemixRequest.  A host request is                                  *)
(*   [method, protocol, host, url, headers, body]                          *)
(* where body is the list of chunks its readable stream will deliver.      *)
(***************************************************************************)
\* `new URL(req.url, origin)` throws when the origin has no host
UrlThrows(req) == req.host = ""

\* a test that forgets HEAD
HasBodyUnlessGet(method) == method # "GET"

\* `req.method !== "GET" && req.method !== "HEAD"`
HasBody(method) == method # "GET" /\ method # "HEAD"

\* the NodeRequest built; body is "stream" when req was piped into a
\* PassThrough, "none" when init.body was never assigned
createRemixRequest(req) ==
    [ url     |-> <<req.protocol, req.host, req.url>>,
      method  |-> req.method,
      headers |-> createRemixHeaders(req.headers),
      body    |-> IF HasBody(req.method) THEN "stream" ELSE "none" ]

----------------------------------------------------------------------------
(***************************************************************************)
(* sendRemixResponse.  A standardized response is [status, headers, body]  *)
(* with body = [kind, data]: kind "buffer" (data the bytes), "stream"      *)
(* (data the chunks the stream will emit) or "none".  An operation on a    *)
(* host response is logged as [op, status, name, value, data, by], `by`    *)
(* being the request whose handling performed it.                          *)
(***************************************************************************)
ResOp(o, s, n, v, d, r) ==
    [op |-> o, status |-> s, name |-> n, value |-> v, data |-> d, by |-> r]

\* res.status(response.status)
StatusOp(response, r) == ResOp("status", response.status, "", "", <<>>, r)

\* res.append(key, value)
AppendOp(key, value, r) == ResOp("append", 0, key, value, <<>>, r)

\* res.write(chunk), called by pipe for each chunk of the body stream
WriteOp(chunk, r) == ResOp("write", 0, "", "", <<chunk>>, r)

\* res.end(data)
EndOp(data, r) == ResOp("end", 0, "", "", data, r)

\* Object.entries(response.headers.raw()) flattened by the two nested loops:
\* every value of every name, names in container order, values in list order
RECURSIVE RawAppends(_, _)
RawAppends(headers, r) ==
    IF headers = <<>>
    THEN <<>>
    ELSE LET h == Head(headers) IN
         [i \in 1..Len(h.values) |-> AppendOp(h.name, h.values[i], r)]
             \o RawAppends(Tail(headers), r)

\* a last statement that ends the response at once for a stream body too
BodyOpsEndingStream(response, r) ==
    IF response.body.kind = "buffer"
    THEN <<EndOp(response.body.data, r)>>
    ELSE <<EndOp(<<>>, r)>>

\* a buffer body written and the response ended in two calls
BodyOpsWriteThenEnd(response, r) ==
    IF response.body.kind = "buffer"
    THEN <<ResOp("write", 0, "", "", response.body.data, r), EndOp(<<>>, r)>>
    ELSE IF response.body.kind = "stream"
         THEN <<>>
         ELSE <<EndOp(<<>>, r)>>

\* the last statement of sendRemixResponse: what it does to res at once
BodyOps(response, r) ==
    IF response.body.kind = "buffer"
    THEN <<EndOp(response.body.data, r)>>
    ELSE IF response.body.kind = "stream"
         THEN <<>>
         ELSE <<EndOp(<<>>, r)>>

\* sendRemixResponse with the body written before the headers are appended
sendRemixResponseBodyFirst(response, r, failAt, err) ==
    [ ops    |-> <<StatusOp(response, r)>> \o BodyOps(response, r)
                     \o RawAppends(response.headers, r),
      thrown |-> NoError,
      piped  |-> response.body.kind = "stream" ]

\* sendRemixResponse(res, response) for request r.  res.append throws
\* (Node's header validation, Express's Content-Type rule) at the failAt-th
\* append, with err, when 1 <= failAt <= the number of appends; everything
\* before that call has taken effect.  The result is the operations
\* performed, the value thrown and whether a stream was piped into res.
sendRemixResponse(response, r, failAt, err) ==
    LET appends == RawAppends(response.headers, r)
        fails   == failAt \in 1..Len(appends)
    IN  IF fails
        THEN [ ops    |-> <<StatusOp(response, r)>> \o SubSeq(appends, 1, failAt - 1),
               thrown |-> err,
               piped  |-> FALSE ]
        ELSE [ ops    |-> <<StatusOp(response, r)>> \o appends \o BodyOps(response, r),
               thrown |-> NoError,
               piped  |-> response.body.kind = "stream" ]

NumAppends(response) == Len(RawAppends(response.headers, 0))

----------------------------------------------------------------------------
(***************************************************************************)
(* The inputs of Spec.                                                     *)
(***************************************************************************)
GetReq ==
    [ method |-> "GET", protocol |-> "http", host |-> "example.com", url |-> "/",
      headers |-> << [name |-> "accept", kind |-> "array",
                      vals |-> <<"text/html", "application/json">>] >>,
      body |-> <<"ignored">> ]

PostReq ==
    [ method |-> "POST", protocol |-> "https", host |-> "example.com", url |-> "/form",
      headers |-> << [name |-> "content-type", kind |-> "string",
                      vals |-> <<"text/plain">>] >>,
      body |-> <<"b1">> ]

BadHostReq ==
    [ method |-> "GET", protocol |-> "http", host |-> "", url |-> "/",
      headers |-> <<>>, body |-> <<>> ]

HostRequests == {GetReq, PostReq, BadHostReq}

RespBuffer ==
    [ status  |-> 200,
      headers |-> << [name |-> "content-type", values |-> <<"text/plain">>] >>,
      body    |-> [kind |-> "buffer", data |-> <<"o", "k">>] ]

RespStream ==
    [ status  |-> 201,
      headers |-> << [name |-> "set-cookie", values |-> <<"a=1", "b=2">>],
                     [name |-> "content-type", values |-> <<"text/html">>] >>,
      body    |-> [kind |-> "stream", data |-> <<"c1", "c2">>] ]

RespEmpty ==
    [ status  |-> 204,
      headers |-> <<>>,
      body    |-> [kind |-> "none", data |-> <<>>] ]

Responses == {RespBuffer, RespStream, RespEmpty}

NoPromise == [state |-> "none", value |-> NoError]

NoStream == [state |-> "none", rest |-> <<>>, error |-> NoError]

----------------------------------------------------------------------------
(***************************************************************************)
(* The middleware returned by createRequestHandler.                        *)
(***************************************************************************)
OrchInit ==
    /\ getLoadContext \in {"function", Undefined}
    /\ pc = [r \in Requests |-> "START"]
    /\ hostReq = [r \in Requests |-> Undefined]
    /\ trace = [r \in Requests |-> <<"START">>]
    /\ ctxCalls = [r \in Requests |-> <<>>]
    /\ runtimeCalls = [r \in Requests |-> <<>>]
    /\ promise = [r \in Requests |-> NoPromise]
    /\ sendCalls = [r \in Requests |-> <<>>]
    /\ nextCalls = [r \in Requests |-> <<>>]
    /\ resOps = [r \in Requests |-> <<>>]
    /\ bodyStream = [r \in Requests |-> NoStream]

\* a catch block that calls next a second time, without an error
CatchTwice(r, error, steps) ==
    /\ nextCalls' = [nextCalls EXCEPT ![r] = @ \o <<error, Undefined>>]
    /\ trace' = [trace EXCEPT ![r] = @ \o steps \o <<"FORWARD_ERROR">>]
    /\ pc' = [pc EXCEPT ![r] = "FORWARD_ERROR"]

\* a catch block that forwards a new error in place of the one caught
CatchWrapped(r, error, steps) ==
    /\ nextCalls' = [nextCalls EXCEPT ![r] = Append(@, "wrapped")]
    /\ trace' = [trace EXCEPT ![r] = @ \o steps \o <<"FORWARD_ERROR">>]
    /\ pc' = [pc EXCEPT ![r] = "FORWARD_ERROR"]

\* the catch block: next(error)
Catch(r, error, steps) ==
    /\ nextCalls' = [nextCalls EXCEPT ![r] = Append(@, error)]
    /\ trace' = [trace EXCEPT ![r] = @ \o steps \o <<"FORWARD_ERROR">>]
    /\ pc' = [pc EXCEPT ![r] = "FORWARD_ERROR"]

\* a call of the runtime that leaves the load context out
InvokeRuntimeWithoutContext(r, request, loadContext) ==
    /\ runtimeCalls' = [runtimeCalls EXCEPT ![r] =
           Append(@, [request |-> request, loadContext |-> Undefined])]
    /\ promise' = [promise EXCEPT ![r].state = "pending"]
    /\ trace' = [trace EXCEPT ![r] =
           @ \o <<"BUILD_REQUEST", "COMPUTE_CONTEXT", "INVOKE_RUNTIME">>]
    /\ pc' = [pc EXCEPT ![r] = "INVOKE_RUNTIME"]

\* a call of the runtime made twice
InvokeRuntimeTwice(r, request, loadContext) ==
    /\ runtimeCalls' = [runtimeCalls EXCEPT ![r] =
           @ \o << [request |-> request, loadContext |-> loadContext],
                   [request |-> request, loadContext |-> loadContext] >>]
    /\ promise' = [promise EXCEPT ![r].state = "pending"]
    /\ trace' = [trace EXCEPT ![r] =
           @ \o <<"BUILD_REQUEST", "COMPUTE_CONTEXT", "INVOKE_RUNTIME">>]
    /\ pc' = [pc EXCEPT ![r] = "INVOKE_RUNTIME"]

\* handleRequest(request, loadContext) is called and the middleware awaits
\* the promise it returned
InvokeRuntime(r, request, loadContext) ==
    /\ runtimeCalls' = [runtimeCalls EXCEPT ![r] =
           Append(@, [request |-> request, loadContext |-> loadContext])]
    /\ promise' = [promise EXCEPT ![r].state = "pending"]
    /\ trace' = [trace EXCEPT ![r] =
           @ \o <<"BUILD_REQUEST", "COMPUTE_CONTEXT", "INVOKE_RUNTIME">>]
    /\ pc' = [pc EXCEPT ![r] = "INVOKE_RUNTIME"]

\* The middleware is called with (req, res, next) and runs to its await:
\* createRemixRequest, getLoadContext, handleRequest.  ctx is the outcome of
\* the callback: [throws, value].
Handle(r, req, ctx) ==
    /\ pc[r] = "START"
    /\ hostReq' = [hostReq EXCEPT ![r] = req]
    /\ IF UrlThrows(req)
       THEN /\ Catch(r, InvalidUrl, <<"BUILD_REQUEST">>)
            /\ UNCHANGED <<ctxCalls, runtimeCalls, promise>>
       ELSE LET request == createRemixRequest(req) IN
            IF getLoadContext = "function"
            THEN /\ ctxCalls' = [ctxCalls EXCEPT ![r] = Append(@, [req |-> r, res |-> r, outcome |-> ctx])]
                 /\ IF ctx.throws
                    THEN /\ Catch(r, ctx.value, <<"BUILD_REQUEST", "COMPUTE_CONTEXT">>)
                         /\ UNCHANGED <<runtimeCalls, promise>>
                    ELSE /\ InvokeRuntime(r, request, ctx.value)
                         /\ UNCHANGED nextCalls
            ELSE /\ InvokeRuntime(r, request, Undefined)
                 /\ UNCHANGED <<ctxCalls, nextCalls>>
    /\ UNCHANGED <<getLoadContext, sendCalls, resOps, bodyStream, relayVars, hdrVars>>

\* The promise of handleRequest resolves with response: the middleware
\* resumes and calls sendRemixResponse(res, response).
Resolve(r, response, failAt, err) ==
    /\ pc[r] = "INVOKE_RUNTIME"
    /\ promise[r].state = "pending"
    /\ promise' = [promise EXCEPT ![r].state = "resolved"]
    /\ LET sent == sendRemixResponse(response, r, failAt, err) IN
       /\ sendCalls' = [sendCalls EXCEPT ![r] = Append(@, response)]
       /\ resOps' = [resOps EXCEPT ![r] = @ \o sent.ops]
       /\ IF sent.thrown # NoError
          THEN /\ Catch(r, sent.thrown, <<"SEND_RESPONSE">>)
               /\ UNCHANGED bodyStream
          ELSE /\ trace' = [trace EXCEPT ![r] = @ \o <<"SEND_RESPONSE", "DONE">>]
               /\ pc' = [pc EXCEPT ![r] = "DONE"]
               /\ bodyStream' = [bodyStream EXCEPT ![r] =
                      IF sent.piped
                      THEN [state |-> "flowing", rest |-> response.body.data,
                            error |-> NoError]
                      ELSE @]
               /\ UNCHANGED nextCalls
    /\ UNCHANGED <<getLoadContext, hostReq, ctxCalls, runtimeCalls, relayVars, hdrVars>>

\* a rejection answered by calling the runtime once more
RejectRetry(r, error) ==
    /\ pc[r] = "INVOKE_RUNTIME"
    /\ promise[r].state = "pending"
    /\ Len(runtimeCalls[r]) < 2
    /\ promise' = [promise EXCEPT ![r] = [state |-> "rejected", value |-> error]]
    /\ runtimeCalls' = [runtimeCalls EXCEPT ![r] = Append(@, @[1])]
    /\ Catch(r, error, <<>>)
    /\ UNCHANGED <<getLoadContext, hostReq, ctxCalls, sendCalls, resOps, bodyStream,
                   relayVars, hdrVars>>

\* a rejection answered with a fallback error response before next is called
RejectWritingFallback(r, error) ==
    /\ pc[r] = "INVOKE_RUNTIME"
    /\ promise[r].state = "pending"
    /\ promise' = [promise EXCEPT ![r] = [state |-> "rejected", value |-> error]]
    /\ resOps' = [resOps EXCEPT ![r] =
           @ \o <<ResOp("status", 500, "", "", <<>>, r), EndOp(<<>>, r)>>]
    /\ Catch(r, error, <<>>)
    /\ UNCHANGED <<getLoadContext, hostReq, ctxCalls, runtimeCalls, sendCalls,
                   bodyStream, relayVars, hdrVars>>

\* The promise of handleRequest rejects with error: the await throws into
\* the catch block.
Reject(r, error) ==
    /\ pc[r] = "INVOKE_RUNTIME"
    /\ promise[r].state = "pending"
    /\ promise' = [promise EXCEPT ![r] = [state |-> "rejected", value |-> error]]
    /\ Catch(r, error, <<>>)
    /\ UNCHANGED <<getLoadContext, hostReq, ctxCalls, runtimeCalls, sendCalls,
                   resOps, bodyStream, relayVars, hdrVars>>

\* a pipe into a host response shared by all requests (the first one's)
PipeDataShared(r) ==
    /\ bodyStream[r].state = "flowing"
    /\ bodyStream[r].rest # <<>>
    /\ resOps' = [resOps EXCEPT ![1] = Append(@, WriteOp(Head(bodyStream[r].rest), r))]
    /\ bodyStream' = [bodyStream EXCEPT ![r].rest = Tail(@)]
    /\ UNCHANGED <<getLoadContext, pc, hostReq, trace, ctxCalls, runtimeCalls,
                   promise, sendCalls, nextCalls, relayVars, hdrVars>>

\* response.body.pipe(res): the stream emits its next chunk, pipe writes it
PipeData(r) ==
    /\ bodyStream[r].state = "flowing"
    /\ bodyStream[r].rest # <<>>
    /\ resOps' = [resOps EXCEPT ![r] = Append(@, WriteOp(Head(bodyStream[r].rest), r))]
    /\ bodyStream' = [bodyStream EXCEPT ![r].rest = Tail(@)]
    /\ UNCHANGED <<getLoadContext, pc, hostReq, trace, ctxCalls, runtimeCalls,
                   promise, sendCalls, nextCalls, relayVars, hdrVars>>

\* response.body.pipe(res): the stream ends, pipe ends res
PipeEnd(r) ==
    /\ bodyStream[r].state = "flowing"
    /\ bodyStream[r].rest = <<>>
    /\ resOps' = [resOps EXCEPT ![r] = Append(@, EndOp(<<>>, r))]
    /\ bodyStream' = [bodyStream EXCEPT ![r].state = "ended"]
    /\ UNCHANGED <<getLoadContext, pc, hostReq, trace, ctxCalls, runtimeCalls,
                   promise, sendCalls, nextCalls, relayVars, hdrVars>>

\* response.body.pipe(res): the stream emits 'error'.  pipe forwards data
\* and end only; the middleware has returned and registered no 'error'
\* listener, so no code of the adapter runs: res is neither written nor
\* ended, next is not called.
PipeError(r, error) ==
    /\ bodyStream[r].state = "flowing"
    /\ bodyStream' = [bodyStream EXCEPT ![r].state = "errored", ![r].error = error]
    /\ UNCHANGED <<getLoadContext, pc, hostReq, trace, ctxCalls, runtimeCalls,
                   promise, sendCalls, nextCalls, resOps, relayVars, hdrVars>>

CtxOutcomes ==
    [throws : {FALSE}, value : Contexts] \cup [throws : {TRUE}, value : Errors]

----------------------------------------------------------------------------
(***************************************************************************)
(* SpecRelay: createRemixRequest and `req.pipe(new PassThrough({           *)
(* highWaterMark: 16384 }))`.  A chunk is a list of blocks of BlockSize    *)
(* bytes each.  pipe writes every chunk req emits into the PassThrough,    *)
(* pauses req when write() reports the buffer at or over the high-water    *)
(* mark, resumes it on 'drain' and ends the PassThrough when req ends.     *)
(***************************************************************************)
HighWaterMark == 16384

Methods == {"GET", "HEAD", "POST", "PUT"}

Blocks == {"x", "y"}

SeqsUpTo(S, n) == UNION { [1..k -> S] : k \in 0..n }

Chunks == SeqsUpTo(Blocks, MaxChunkBlocks) \ {<<>>}

Bodies == SeqsUpTo(Chunks, MaxChunks)

RECURSIVE Flatten(_)
Flatten(chunks) ==
    IF chunks = <<>> THEN <<>> ELSE Head(chunks) \o Flatten(Tail(chunks))

\* the bytes held in a list of chunks
Bytes(chunks) == Len(Flatten(chunks)) * BlockSize

RelayIdle ==
    /\ relayReq = Undefined
    /\ relayRequest = <<>>
    /\ srcRest = <<>>
    /\ srcState = "unpiped"
    /\ ptBuf = <<>>
    /\ ptEnded = FALSE
    /\ observed = <<>>
    /\ observedEnd = FALSE

\* createRemixRequest(req)
BuildRequest ==
    /\ relayRequest = <<>>
    /\ relayRequest' = <<createRemixRequest(relayReq)>>
    /\ IF relayRequest'[1].body = "stream"
       THEN /\ srcState' = "flowing"
            /\ srcRest' = relayReq.body
       ELSE UNCHANGED <<srcState, srcRest>>
    /\ UNCHANGED <<relayReq, ptBuf, ptEnded, observed, observedEnd, orchVars, hdrVars>>

\* a relay that discards the chunk whose write fills the buffer
SrcDataDropping ==
    /\ srcState = "flowing"
    /\ srcRest # <<>>
    /\ LET full == Bytes(Append(ptBuf, Head(srcRest))) >= HighWaterMark IN
       /\ ptBuf' = IF full THEN ptBuf ELSE Append(ptBuf, Head(srcRest))
       /\ srcState' = IF full THEN "paused" ELSE "flowing"
    /\ srcRest' = Tail(srcRest)
    /\ UNCHANGED <<relayReq, relayRequest, ptEnded, observed, observedEnd, orchVars, hdrVars>>

\* req emits 'data': pipe calls write(chunk) on the PassThrough, which
\* buffers the chunk, and pauses req if write returned false
SrcData ==
    /\ srcState = "flowing"
    /\ srcRest # <<>>
    /\ ptBuf' = Append(ptBuf, Head(srcRest))
    /\ srcRest' = Tail(srcRest)
    /\ srcState' = IF Bytes(ptBuf') >= HighWaterMark THEN "paused" ELSE "flowing"
    /\ UNCHANGED <<relayReq, relayRequest, ptEnded, observed, observedEnd, orchVars, hdrVars>>

\* the PassThrough emits 'drain': pipe resumes req
Drain ==
    /\ srcState = "paused"
    /\ ptBuf = <<>>
    /\ srcState' = "flowing"
    /\ UNCHANGED <<relayReq, relayRequest, srcRest, ptBuf, ptEnded, observed, observedEnd, orchVars, hdrVars>>

\* req emits 'end': pipe calls end() on the PassThrough
SrcEnd ==
    /\ srcState = "flowing"
    /\ srcRest = <<>>
    /\ srcState' = "ended"
    /\ ptEnded' = TRUE
    /\ UNCHANGED <<relayReq, relayRequest, srcRest, ptBuf, observed, observedEnd, orchVars, hdrVars>>

\* req emits 'error' (the connection closed mid-stream): pipe forwards
\* neither the error nor an end to the PassThrough
SrcError ==
    /\ srcState \in {"flowing", "paused"}
    /\ srcRest # <<>>
    /\ srcState' = "errored"
    /\ UNCHANGED <<relayReq, relayRequest, srcRest, ptBuf, ptEnded, observed, observedEnd, orchVars, hdrVars>>

\* the runtime reads the next chunk of the standardized request's body
BodyRead ==
    /\ ptBuf # <<>>
    /\ observed' = observed \o Head(ptBuf)
    /\ ptBuf' = Tail(ptBuf)
    /\ UNCHANGED <<relayReq, relayRequest, srcRest, srcState, ptEnded, observedEnd, orchVars, hdrVars>>

\* the runtime reads the end of the standardized request's body
BodyReadEnd ==
    /\ ptBuf = <<>>
    /\ ptEnded
    /\ ~observedEnd
    /\ observedEnd' = TRUE
    /\ UNCHANGED <<relayReq, relayRequest, srcRest, srcState, ptBuf, ptEnded, observed, orchVars, hdrVars>>

----------------------------------------------------------------------------
(***************************************************************************)
(* SpecHeaders: createRemixHeaders on a host header collection, then the   *)
(* header loop of sendRemixResponse on the container it returned.          *)
(***************************************************************************)
HeaderNames == {"accept", "set-cookie"}

HeaderValues == {"", "a", "b"}

HostEntries ==
    { [name |-> n, kind |-> "array", vals |-> v] :
          n \in HeaderNames, v \in SeqsUpTo(HeaderValues, MaxVals) }
    \cup { [name |-> n, kind |-> "string", vals |-> <<v>>] :
          n \in HeaderNames, v \in HeaderValues }
    \cup { [name |-> n, kind |-> "undefined", vals |-> <<>>] : n \in HeaderNames }

\* the header objects of a host: every name is a key at most once
HostHeaders ==
    { h \in SeqsUpTo(HostEntries, Cardinality(HeaderNames)) :
          \A i, j \in 1..Len(h) : h[i].name = h[j].name => i = j }

HdrIdle ==
    /\ hdrIn = <<>>
    /\ hdrPc = "start"
    /\ hdrStd = <<>>
    /\ hdrOut = <<>>

\* res.append(field, val) of Express on the header map of a host response:
\* the value joins those already set under the name; a previous value that
\* is falsy (the empty string) is replaced
ResAppend(resHeaders, field, val) ==
    LET i == HeaderIndex(resHeaders, field) IN
    IF i = 0
    THEN Append(resHeaders, [name |-> field, values |-> <<val>>])
    ELSE IF resHeaders[i].values = <<"">>
         THEN [resHeaders EXCEPT ![i].values = <<val>>]
         ELSE [resHeaders EXCEPT ![i].values = Append(@, val)]

\* the header loop of sendRemixResponse applied to a host response's headers
RECURSIVE ApplyAppends(_, _)
ApplyAppends(resHeaders, appends) ==
    IF appends = <<>>
    THEN resHeaders
    ELSE ApplyAppends(ResAppend(resHeaders, Head(appends).name, Head(appends).value),
                      Tail(appends))

\* createRemixHeaders(requestHeaders)
Translate ==
    /\ hdrPc = "start"
    /\ hdrStd' = createRemixHeaders(hdrIn)
    /\ hdrPc' = "translated"
    /\ UNCHANGED <<hdrIn, hdrOut, orchVars, relayVars>>

\* for each [key, values] of headers.raw(), for each value: res.append(key, value)
SendHeaders ==
    /\ hdrPc = "translated"
    /\ hdrOut' = ApplyAppends(<<>>, RawAppends(hdrStd, 0))
    /\ hdrPc' = "sent"
    /\ UNCHANGED <<hdrIn, hdrStd, orchVars, relayVars>>

----------------------------------------------------------------------------
(***************************************************************************)
(* The specifications.                                                     *)
(***************************************************************************)
OrchIdle ==
    /\ getLoadContext = Undefined
    /\ pc = [r \in Requests |-> "START"]
    /\ hostReq = [r \in Requests |-> Undefined]
    /\ trace = [r \in Requests |-> <<"START">>]
    /\ ctxCalls = [r \in Requests |-> <<>>]
    /\ runtimeCalls = [r \in Requests |-> <<>>]
    /\ promise = [r \in Requests |-> NoPromise]
    /\ sendCalls = [r \in Requests |-> <<>>]
    /\ nextCalls = [r \in Requests |-> <<>>]
    /\ resOps = [r \in Requests |-> <<>>]
    /\ bodyStream = [r \in Requests |-> NoStream]

Init == OrchInit /\ RelayIdle /\ HdrIdle

Next ==
    \/ \E r \in Requests, req \in HostRequests, ctx \in CtxOutcomes : Handle(r, req, ctx)
    \/ \E r \in Requests, response \in Responses, err \in Errors :
           \E failAt \in 0..NumAppends(response) : Resolve(r, response, failAt, err)
    \/ \E r \in Requests, error \in Errors : Reject(r, error)
    \/ \E r \in Requests : PipeData(r)
    \/ \E r \in Requests : PipeEnd(r)
    \/ \E r \in Requests, error \in Errors : PipeError(r, error)

Spec == Init /\ [][Next]_vars

RelayInit ==
    /\ OrchIdle
    /\ HdrIdle
    /\ relayReq \in [ method : Methods, protocol : {"http"}, host : {"example.com"},
                       url : {"/"}, headers : {<<>>}, body : Bodies ]
    /\ relayRequest = <<>>
    /\ srcRest = <<>>
    /\ srcState = "unpiped"
    /\ ptBuf = <<>>
    /\ ptEnded = FALSE
    /\ observed = <<>>
    /\ observedEnd = FALSE

RelayNext ==
    \/ BuildRequest
    \/ SrcData
    \/ Drain
    \/ SrcEnd
    \/ SrcError
    \/ BodyRead
    \/ BodyReadEnd

SpecRelay == RelayInit /\ [][RelayNext]_vars

HeadersInit ==
    /\ OrchIdle
    /\ RelayIdle
    /\ hdrIn \in HostHeaders
    /\ hdrPc = "start"
    /\ hdrStd = <<>>
    /\ hdrOut = <<>>

HeadersNext ==
    \/ Translate
    \/ SendHeaders

SpecHeaders == HeadersInit /\ [][HeadersNext]_vars

----------------------------------------------------------------------------
(***************************************************************************)
(* What the claims speak of.                                               *)
(***************************************************************************)
\* the host response of request r has been ended
Ended(r) == \E i \in 1..Len(resOps[r]) : resOps[r][i].op = "end"

\* an error of request r has been handed to next
Forwarded(r) == nextCalls[r] # <<>>

\* the handling of request r can take no further step
Settled(r) ==
    /\ pc[r] \in {"DONE", "FORWARD_ERROR"}
    /\ bodyStream[r].state # "flowing"

\* the operations of a host response that write or end the body
IsBodyOp(o) == o.op \in {"write", "end"}

----------------------------------------------------------------------------
(***************************************************************************)
(* The claims.                                                             *)
(***************************************************************************)

\* C1: once the handling of a request can take no further step, exactly one
\* terminal outcome has happened: the host response was ended, or an error
\* was forwarded through next; never both and never neither.  Refuted by a
\* response body stream that fails: neither happens.
C1_ExactlyOneOutcome ==
    \A r \in Requests : Settled(r) => (Ended(r) /\ ~Forwarded(r)) \/ (Forwarded(r) /\ ~Ended(r))

\* C2: whenever a failure was handed to next, nothing has been written to the
\* host response of that request.  Refuted by res.append throwing inside
\* sendRemixResponse: the status is set by then.
C2_NoWriteOnFailure ==
    \A r \in Requests : Forwarded(r) => resOps[r] = <<>>

\* C3: if getLoadContext throws, the host response receives no operation, the
\* runtime handler is not invoked and next is called with exactly the thrown
\* value, once.
C3_ContextThrows ==
    \A r \in Requests :
        \A i \in 1..Len(ctxCalls[r]) :
            ctxCalls[r][i].outcome.throws =>
                /\ resOps[r] = <<>>
                /\ runtimeCalls[r] = <<>>
                /\ sendCalls[r] = <<>>
                /\ nextCalls[r] = <<ctxCalls[r][i].outcome.value>>

C3_Witness ==
    \E r \in Requests :
        /\ Len(ctxCalls[r]) = 1
        /\ ctxCalls[r][1].outcome.throws
        /\ ctxCalls[r][1].outcome.value = "e2"
        /\ pc[r] = "FORWARD_ERROR"

\* C4: if the promise of the runtime handler rejects, the runtime was invoked
\* once and is not invoked again, the host response receives no operation,
\* and next is called exactly once, with the value of the rejection.
C4_RuntimeRejects ==
    \A r \in Requests :
        promise[r].state = "rejected" =>
            /\ Len(runtimeCalls[r]) = 1
            /\ resOps[r] = <<>>
            /\ sendCalls[r] = <<>>
            /\ nextCalls[r] = <<promise[r].value>>

C4_Witness ==
    \E r \in Requests :
        /\ promise[r] = [state |-> "rejected", value |-> "e2"]
        /\ pc[r] = "FORWARD_ERROR"

\* C5: a response body stream that fails after sendRemixResponse piped it
\* into the host response has its error forwarded to next.  Refuted: no
\* listener of the adapter sees the error, next is never called.
C5_StreamErrorForwarded ==
    \A r \in Requests :
        bodyStream[r].state = "errored" =>
            \E i \in 1..Len(nextCalls[r]) : nextCalls[r][i] = bodyStream[r].error

\* C6: on every host response the status is set first and once, every header
\* of the response is appended before the first body write or end, and no
\* header is appended after it.
C6_StatusHeadersBody ==
    \A r \in Requests :
        LET ops == resOps[r] IN
        /\ ops # <<>> => ops[1].op = "status"
        /\ \A i \in 2..Len(ops) : ops[i].op # "status"
        /\ \A i, j \in 1..Len(ops) : (i < j /\ IsBodyOp(ops[i])) => IsBodyOp(ops[j])
        /\ (\E i \in 1..Len(ops) : IsBodyOp(ops[i])) =>
               /\ Len(sendCalls[r]) = 1
               /\ SelectSeq(ops, LAMBDA o : o.op = "append")
                      = RawAppends(sendCalls[r][1].headers, r)

C6_Witness ==
    \E r \in Requests :
        LET ops == resOps[r] IN
        /\ Len(ops) = 7
        /\ ops[1].op = "status"
        /\ ops[2].op = "append" /\ ops[3].op = "append" /\ ops[4].op = "append"
        /\ ops[5].op = "write" /\ ops[6].op = "write"
        /\ ops[7].op = "end"

\* C7: the request built from a host request whose method is GET or HEAD has
\* no body and the host request is not piped, whatever body it carries; for
\* every other method the body stream is attached and the host request piped.
C7_BodylessMethods ==
    relayRequest # <<>> =>
        IF relayReq.method \in {"GET", "HEAD"}
        THEN /\ relayRequest[1].body = "none"
             /\ srcState = "unpiped"
             /\ ptBuf = <<>> /\ observed = <<>> /\ ~ptEnded
        ELSE /\ relayRequest[1].body = "stream"
             /\ srcState # "unpiped"

C7_Witness ==
    /\ relayRequest # <<>>
    /\ relayReq.method = "HEAD"
    /\ Len(relayReq.body) = 2

\* C8: for a method other than GET/HEAD, the bytes read from the standardized
\* request's body are at every moment a prefix of the bytes of the host
\* request's body, what is read, buffered in the relay and still to be
\* emitted making up exactly the body; once the reader sees the end of the
\* stream it has read exactly the bytes of the body, in order.
C8_RelayPreservesBytes ==
    (relayRequest # <<>> /\ relayReq.method \notin {"GET", "HEAD"}) =>
        /\ observed \o Flatten(ptBuf) \o Flatten(srcRest) = Flatten(relayReq.body)
        /\ observedEnd => observed = Flatten(relayReq.body)

C8_Witness ==
    /\ relayReq.method = "POST"
    /\ observedEnd
    /\ Len(relayReq.body) = 2
    /\ Bytes(relayReq.body) > HighWaterMark
    /\ observed = <<"x", "y", "y", "x">>

\* C9: createRemixHeaders gives every list-valued entry its elements under
\* its name in list order, every non-empty scalar entry its one value, an
\* entry that is undefined or the empty string no header at all, and the
\* result holds no other header.
C9_HeaderTranslation ==
    hdrPc # "start" =>
        /\ \A i \in 1..Len(hdrIn) :
               LET e == hdrIn[i] IN
               /\ e.kind = "array" => HeadersGet(hdrStd, e.name) = e.vals
               /\ (e.kind = "string" /\ e.vals[1] # "") =>
                      HeadersGet(hdrStd, e.name) = <<e.vals[1]>>
               /\ (e.kind = "undefined" \/ (e.kind = "string" /\ e.vals[1] = "")) =>
                      \A j \in 1..Len(hdrStd) : hdrStd[j].name # e.name
        /\ \A j \in 1..Len(hdrStd) :
               /\ hdrStd[j].values # <<>>
               /\ \E i \in 1..Len(hdrIn) : hdrIn[i].name = hdrStd[j].name
               /\ \A k \in 1..Len(hdrStd) : hdrStd[k].name = hdrStd[j].name => k = j

C9_Witness ==
    /\ hdrPc = "translated"
    /\ Len(hdrIn) = 2
    /\ hdrIn[1] = [name |-> "set-cookie", kind |-> "array", vals |-> <<"b", "a">>]
    /\ hdrIn[2] = [name |-> "accept", kind |-> "string", vals |-> <<"">>]

\* the host collection has an entry holding a list of several values
HasMultiValue(headers) ==
    \E i \in 1..Len(headers) : headers[i].kind = "array" /\ Len(headers[i].vals) >= 2

BodyOpsOf(r) == SelectSeq(resOps[r], IsBodyOp)

\* C11: when the response passed to sendRemixResponse has a buffer body and
\* sendRemixResponse returns, the host response has received exactly one
\* body operation: one end carrying exactly the bytes of the buffer; no
\* write, no second end, then or later.
C11_BufferSingleEnd ==
    \A r \in Requests :
        (sendCalls[r] # <<>> /\ sendCalls[r][1].body.kind = "buffer") =>
            /\ pc[r] = "DONE" => BodyOpsOf(r) = <<EndOp(sendCalls[r][1].body.data, r)>>
            /\ pc[r] # "DONE" => BodyOpsOf(r) = <<>>

C11_Witness ==
    \E r \in Requests :
        /\ pc[r] = "DONE"
        /\ sendCalls[r] = <<RespBuffer>>
        /\ resOps[r][Len(resOps[r])].data = <<"o", "k">>

\* C12: a supplied getLoadContext is called at most once per request, with
\* the request's own req and res, exactly once for every request whose
\* standardized request was built and never when building it threw; the
\* runtime is called only after the callback returned, with the value it
\* returned as second argument; with no callback supplied the callback log
\* stays empty and the runtime receives undefined.
C12_LoadContext ==
    \A r \in Requests :
        /\ Len(ctxCalls[r]) <= 1
        /\ pc[r] = "START" => ctxCalls[r] = <<>>
        /\ getLoadContext = Undefined => ctxCalls[r] = <<>>
        /\ pc[r] # "START" =>
               IF UrlThrows(hostReq[r])
               THEN ctxCalls[r] = <<>>
               ELSE getLoadContext = "function" =>
                        /\ Len(ctxCalls[r]) = 1
                        /\ ctxCalls[r][1].req = r
                        /\ ctxCalls[r][1].res = r
        /\ \A i \in 1..Len(runtimeCalls[r]) :
               IF getLoadContext = "function"
               THEN /\ Len(ctxCalls[r]) = 1
                    /\ ~ctxCalls[r][1].outcome.throws
                    /\ runtimeCalls[r][i].loadContext = ctxCalls[r][1].outcome.value
               ELSE runtimeCalls[r][i].loadContext = Undefined

C12_Witness ==
    \E r \in Requests :
        /\ getLoadContext = "function"
        /\ Len(ctxCalls[r]) = 1
        /\ ctxCalls[r][1].outcome = [throws |-> FALSE, value |-> "ctxA"]
        /\ Len(runtimeCalls[r]) = 1
        /\ runtimeCalls[r][1].loadContext = "ctxA"

\* the orchestration states of a request that is served
ServedSequence ==
    <<"START", "BUILD_REQUEST", "COMPUTE_CONTEXT", "INVOKE_RUNTIME", "SEND_RESPONSE", "DONE">>

IsPrefix(s, t) == Len(s) <= Len(t) /\ s = SubSeq(t, 1, Len(s))

\* C13: the states a request has gone through are an initial part of START,
\* BUILD_REQUEST, COMPUTE_CONTEXT, INVOKE_RUNTIME, SEND_RESPONSE, DONE, or
\* such a part that stops before DONE followed by the one FORWARD_ERROR; and
\* the host response has received an operation only if the promise of the
\* runtime handler resolved and the request reached SEND_RESPONSE.
C13_StateSequence ==
    \A r \in Requests :
        LET t == trace[r] IN
        /\ t # <<>>
        /\ pc[r] = t[Len(t)]
        /\ \/ IsPrefix(t, ServedSequence)
           \/ /\ t[Len(t)] = "FORWARD_ERROR"
              /\ Len(t) >= 2
              /\ IsPrefix(SubSeq(t, 1, Len(t) - 1), SubSeq(ServedSequence, 1, 5))
        /\ resOps[r] # <<>> =>
               /\ promise[r].state = "resolved"
               /\ Len(t) >= 5 /\ t[5] = "SEND_RESPONSE"

C13_Witness ==
    \E r, q \in Requests :
        /\ trace[r] = ServedSequence
        /\ Ended(r)
        /\ trace[q] = <<"START", "BUILD_REQUEST", "COMPUTE_CONTEXT", "INVOKE_RUNTIME",
                        "SEND_RESPONSE", "FORWARD_ERROR">>

\* the writes pipe performs for the chunks of a stream, in order
ChunkWrites(chunks, r) == [i \in 1..Len(chunks) |-> WriteOp(chunks[i], r)]

\* C14: a host response is ended at most once.  With a stream body it is
\* ended exactly when the stream has completed, the end following one write
\* per chunk in stream order, and before that the body operations are the
\* writes of the chunks emitted so far; with no body, once sendRemixResponse
\* has returned the response holds the status, the headers and then one end
\* without data and no write; with a buffer body it holds exactly one end.
C14_EndedOnce ==
    \A r \in Requests :
        /\ Len(SelectSeq(resOps[r], LAMBDA o : o.op = "end")) <= 1
        /\ sendCalls[r] # <<>> =>
               LET response == sendCalls[r][1]
                   full == ChunkWrites(response.body.data, r) \o <<EndOp(<<>>, r)>>
               IN
               /\ response.body.kind = "stream" =>
                      /\ Ended(r) <=> bodyStream[r].state = "ended"
                      /\ IsPrefix(BodyOpsOf(r), full)
                      /\ Ended(r) => BodyOpsOf(r) = full
                      /\ ~Ended(r) => Len(BodyOpsOf(r)) + Len(bodyStream[r].rest)
                                          = Len(response.body.data) \/ pc[r] # "DONE"
               /\ (response.body.kind = "none" /\ pc[r] = "DONE") =>
                      resOps[r] = <<StatusOp(response, r)>>
                                      \o RawAppends(response.headers, r)
                                      \o <<EndOp(<<>>, r)>>
               /\ (response.body.kind = "buffer" /\ pc[r] = "DONE") =>
                      Len(SelectSeq(resOps[r], LAMBDA o : o.op = "end")) = 1

C14_Witness ==
    \E r, q \in Requests :
        /\ sendCalls[r] = <<RespStream>>
        /\ bodyStream[r].state = "ended"
        /\ BodyOpsOf(r) = <<WriteOp("c1", r), WriteOp("c2", r), EndOp(<<>>, r)>>
        /\ sendCalls[q] = <<RespEmpty>>
        /\ Ended(q)

\* the operations sendRemixResponse performs before its last statement
HeadOps(response, r) == <<StatusOp(response, r)>> \o RawAppends(response.headers, r)

\* C15: a request whose error was handed to next has on its host response
\* nothing but operations sendRemixResponse performed for the runtime's own
\* response before it threw (a status, headers; no write, no end, no
\* fallback response), and from then on no step performs a further
\* operation on that host response.
C15_NoFallbackResponse ==
    /\ [](\A r \in Requests :
             Forwarded(r) =>
                 /\ BodyOpsOf(r) = <<>>
                 /\ IF sendCalls[r] = <<>>
                    THEN resOps[r] = <<>>
                    ELSE IsPrefix(resOps[r], HeadOps(sendCalls[r][1], r)))
    /\ [][\A r \in Requests : Forwarded(r) => resOps'[r] = resOps[r]]_vars

C15_Witness ==
    \E r, q \in Requests :
        /\ nextCalls[r] = <<"e1">>
        /\ Len(resOps[r]) = 3
        /\ nextCalls[q] = <<"e2">>
        /\ promise[q].state = "rejected"

\* everything sendRemixResponse and the pipe it starts do to a host response
FullOps(response, r) ==
    HeadOps(response, r) \o
        IF response.body.kind = "buffer"
        THEN <<EndOp(response.body.data, r)>>
        ELSE IF response.body.kind = "stream"
             THEN ChunkWrites(response.body.data, r) \o <<EndOp(<<>>, r)>>
             ELSE <<EndOp(<<>>, r)>>

\* the state of the handling of request q, its host response included
HandlingOf(q) ==
    <<pc[q], trace[q], ctxCalls[q], runtimeCalls[q], promise[q], sendCalls[q],
      nextCalls[q], resOps[q], bodyStream[q]>>

\* C16: with several requests in flight, every operation on a host response
\* is performed by the handling of its own request and the operations are
\* an initial part of the status, headers and body of the response the
\* runtime returned for that request; a value handed to a request's next is
\* a failure of that request; and every step changes the handling of one
\* request only, leaving the others' as they were.
C16_Independence ==
    /\ [](\A r \in Requests :
             /\ \A i \in 1..Len(resOps[r]) : resOps[r][i].by = r
             /\ resOps[r] # <<>> =>
                    /\ Len(sendCalls[r]) = 1
                    /\ IsPrefix(resOps[r], FullOps(sendCalls[r][1], r))
             /\ Forwarded(r) =>
                    IF UrlThrows(hostReq[r])
                    THEN nextCalls[r] = <<InvalidUrl>>
                    ELSE IF ctxCalls[r] # <<>> /\ ctxCalls[r][1].outcome.throws
                         THEN nextCalls[r] = <<ctxCalls[r][1].outcome.value>>
                         ELSE IF promise[r].state = "rejected"
                              THEN nextCalls[r] = <<promise[r].value>>
                              ELSE /\ promise[r].state = "resolved"
                                   /\ Len(sendCalls[r]) = 1
                                   /\ Len(resOps[r]) <= NumAppends(sendCalls[r][1]))
    /\ [][\E r \in Requests :
              \A q \in Requests \ {r} : HandlingOf(q)' = HandlingOf(q)]_vars

C16_Witness ==
    \E r, q \in Requests :
        /\ sendCalls[r] = <<RespStream>>
        /\ bodyStream[r].state = "flowing"
        /\ BodyOpsOf(r) = <<WriteOp("c1", r)>>
        /\ sendCalls[q] = <<RespBuffer>>
        /\ bodyStream[q].state = "none"
        /\ Ended(q)

\* C17: next is called at most once per request and only with an error; a
\* request whose sendRemixResponse returned normally never has next called,
\* whatever happens to its body stream afterwards.
C17_NextAtMostOnce ==
    \A r \in Requests :
        /\ Len(nextCalls[r]) <= 1
        /\ \A i \in 1..Len(nextCalls[r]) : nextCalls[r][i] \in Errors \cup {InvalidUrl}
        /\ pc[r] = "DONE" => nextCalls[r] = <<>>
        /\ Forwarded(r) <=> pc[r] = "FORWARD_ERROR"

C17_Witness ==
    \E r, q \in Requests :
        /\ pc[r] = "DONE"
        /\ bodyStream[r].state = "ended"
        /\ nextCalls[r] = <<>>
        /\ nextCalls[q] = <<InvalidUrl>>

\* C18: the runtime handler is called at most once per request and not at
\* all when createRemixRequest or getLoadContext threw; sendRemixResponse
\* is called at most once, and only when the runtime was called and its
\* promise resolved.
C18_CalledAtMostOnce ==
    \A r \in Requests :
        /\ Len(runtimeCalls[r]) <= 1
        /\ (pc[r] # "START" /\ UrlThrows(hostReq[r])) => runtimeCalls[r] = <<>>
        /\ (ctxCalls[r] # <<>> /\ ctxCalls[r][1].outcome.throws) => runtimeCalls[r] = <<>>
        /\ Len(sendCalls[r]) <= 1
        /\ sendCalls[r] # <<>> =>
               /\ Len(runtimeCalls[r]) = 1
               /\ promise[r].state = "resolved"
        /\ promise[r].state \in {"pending", "rejected"} => sendCalls[r] = <<>>

C18_Witness ==
    \E r, q \in Requests :
        /\ pc[r] = "FORWARD_ERROR"
        /\ UrlThrows(hostReq[r])
        /\ runtimeCalls[r] = <<>>
        /\ Len(runtimeCalls[q]) = 1
        /\ Len(sendCalls[q]) = 1
        /\ pc[q] = "DONE"

====
